---- MODULE Spec2Model ----
(***************************************************************************)
(* The stepping engine of src/src/interpreter/PseudocodeInterpreter.ts     *)
(* (the second class of the file, lines 481-1001: the one with INPUT,      *)
(* PROCEDURE and CALL).                                                    *)
(*                                                                         *)
(* A program line is a record: `kind` is what the startsWith / equality    *)
(* tests of executeLine and findMatchingEnd see of the upper-cased text,   *)
(* `ok` is whether the header regex of that branch matches, and the other  *)
(* fields are the regex groups.  An expression is a tree over number and   *)
(* string literals, identifiers, binary operators and calls name(args):    *)
(* evaluateExpression is modelled on that tree, step by step as the code   *)
(* rewrites the text (calls first, then variables, then concatenation,     *)
(* then eval with the fall-back to the processed text).                    *)
(*                                                                         *)
(* JavaScript objects are references: state.variables and state.callStack  *)
(* are cells of `heap`, a snapshot { ...this.state } holds the same cells, *)
(* and callFunction installs fresh cells.                                  *)
(***************************************************************************)
EXTENDS Integers, Sequences, FiniteSets, TLC

VARIABLES
    code,         \* the source text, split on newlines: the lines the editor shows
    lines,        \* this.lines: the trimmed non-blank lines (index 0 is lines[1])
    functions,    \* this.functions: name -> FunctionDefinition
    variables,    \* this.state.variables: a heap cell
    callStack,    \* this.state.callStack: a heap cell
    currentLine,  \* this.state.currentLine
    finished,     \* this.state.finished
    heap,         \* the objects: environments and frame arrays
    output,       \* the strings passed to outputCallback, in order
    prompts,      \* the calls of inputCallback, in order: the prompt and the reply
    snaps,        \* the snapshots step() has returned, in order
    threw,        \* the last step() call ended in an exception
    nsteps,       \* number of step() calls made by the host
    executed,     \* the line indexes executeLine has dispatched, in order
    popped,       \* the callStack.pop() calls, in order: the line and the frame
    pushed,       \* the callStack.push() calls, in order: the stack they left
    mutated,      \* the host has written into a snapshot it was given
    isRunning,    \* the host's isRunning: the run loop is scheduling steps
    shown         \* the host's variables: the environment it displays

vars == <<code, lines, functions, variables, callStack, currentLine, finished, heap,
          output, prompts, snaps, threw, nsteps, executed, popped, pushed, mutated,
          isRunning, shown>>

----------------------------------------------------------------------------
(* Bounds of the model *)

MaxLines == 3
MaxSteps == 6
MaxCallSteps == 14
MaxLoopSteps == 80
MaxFrom == 2
MaxTo == 3

----------------------------------------------------------------------------
(* Values *)

Num(n) == [t |-> "num", n |-> n]
Str(s) == [t |-> "str", s |-> s]
Bool(b) == [t |-> "bool", b |-> b]
List(xs) == [t |-> "list", xs |-> xs]
Undef == [t |-> "undef"]
NaN == [t |-> "nan"]
Fail == [t |-> "fail"]

RECURSIVE JoinStr(_, _)
JoinStr(ss, sep) ==
    IF Len(ss) = 0 THEN ""
    ELSE IF Len(ss) = 1 THEN ss[1]
    ELSE ss[1] \o sep \o JoinStr(Tail(ss), sep)

RECURSIVE ToStr(_)
ToStr(v) ==
    CASE v.t = "num" -> ToString(v.n)
      [] v.t = "str" -> v.s
      [] v.t = "bool" -> IF v.b THEN "true" ELSE "false"
      [] v.t = "list" -> JoinStr([i \in 1..Len(v.xs) |-> ToStr(v.xs[i])], ",")
      [] v.t = "nan" -> "NaN"
      [] OTHER -> "undefined"

Truthy(v) ==
    CASE v.t = "num" -> v.n # 0
      [] v.t = "str" -> v.s # ""
      [] v.t = "bool" -> v.b
      [] v.t = "list" -> TRUE
      [] OTHER -> FALSE

----------------------------------------------------------------------------
(* Expression trees *)

N(n) == [k |-> "num", n |-> n]
(* A quoted literal, its text cut at the word boundaries: each piece is a   *)
(* word (a run of letters, digits and _) or the run between two words.     *)
Q(ps) == [k |-> "str", ps |-> ps]
S(s) == Q(<<s>>)
V(x) == [k |-> "var", x |-> x]
Bin(op, l, r) == [k |-> "bin", op |-> op, l |-> l, r |-> r]
CallE(f, args) == [k |-> "call", f |-> f, args |-> args]
(* an expression text followed by a word that is no part of it: eval fails  *)
Trail(e, word) == [k |-> "trail", e |-> e, word |-> word]
(* [item, ...]: only as a whole expression or as the argument of a built-in *)
L(items) == [k |-> "list", items |-> items]
(* String(result) of a call, put into the text by the replace callback:   *)
(* read again as text, a string result is an identifier.  fresh: put in   *)
(* by the current pass of the replace loop.                               *)
Res(v) == [k |-> "res", v |-> v, fresh |-> TRUE]

Bound(env, x) == x \in DOMAIN env

(* An environment is a JavaScript object: its keys are kept in the order of *)
(* their first assignment, held here under a key that is no identifier.    *)
Keys == "<keys>"
Order(env) == IF Keys \in DOMAIN env THEN env[Keys] ELSE <<>>

Put(env, x, v) ==
    [y \in (DOMAIN env) \cup {x, Keys} |->
        IF y = Keys THEN IF x \in DOMAIN env THEN Order(env) ELSE Append(Order(env), x)
        ELSE IF y = x THEN v ELSE env[y]]

(* Object.entries meets y after a *)
After(env, a, y) ==
    /\ Bound(env, y) /\ y # Keys
    /\ \E i \in 1..Len(Order(env)) : \E j \in (i + 1)..Len(Order(env)) :
           Order(env)[i] = a /\ Order(env)[j] = y

HasStr(v) == v.t = "str" \/ (v.t = "list" /\ \E i \in 1..Len(v.xs) : v.xs[i].t = "str")

Literal(v) == IF v.t = "str" THEN "\"" \o v.s \o "\"" ELSE ToStr(v)

(* the characters between the quotes *)
Quoted(ps) == JoinStr(ps, "")

(* the same after the variable substitution, whose \bname\b matches a word  *)
(* inside the quotes as it does outside (no value of the programs holds a   *)
(* + or a parenthesis, which would split the literal)                       *)
Substituted(ps, env) ==
    JoinStr([i \in 1..Len(ps) |-> IF Bound(env, ps[i]) THEN Literal(env[ps[i]]) ELSE ps[i]],
            "")

(* a word of the literal was replaced by a quoted string: eval cannot read  *)
(* the text as one string                                                   *)
Broken(ps, env) == \E i \in 1..Len(ps) : Bound(env, ps[i]) /\ env[ps[i]].t = "str"

RECURSIVE Render(_, _)
Render(e, env) ==
    CASE e.k = "num" -> ToString(e.n)
      [] e.k = "str" -> "\"" \o Substituted(e.ps, env) \o "\""
      [] e.k = "var" -> IF Bound(env, e.x) THEN Literal(env[e.x]) ELSE e.x
      [] e.k = "bin" -> Render(e.l, env) \o " " \o e.op \o " " \o Render(e.r, env)
      [] e.k = "res" -> IF e.v.t = "str" /\ Bound(env, e.v.s) THEN Literal(env[e.v.s])
                        ELSE ToStr(e.v)
      [] e.k = "trail" -> Render(e.e, env) \o " " \o e.word
      [] OTHER -> e.f \o "(" \o
                  JoinStr([i \in 1..Len(e.args) |-> Render(e.args[i], env)], ", ") \o ")"

(* A variable bound to a list is replaced by JSON.stringify of the list, and *)
(* the variables met after it are then replaced inside that text: a string  *)
(* element that is the name of one of them takes its value, and if that     *)
(* value brings quotes of its own eval cannot read the text.                *)
BrokenList(env, a) ==
    \E i \in 1..Len(env[a].xs) :
        /\ env[a].xs[i].t = "str"
        /\ After(env, a, env[a].xs[i].s)
        /\ HasStr(env[env[a].xs[i].s])

Reparsed(env, a) ==
    IF BrokenList(env, a) THEN Fail
    ELSE List([i \in 1..Len(env[a].xs) |->
                 IF env[a].xs[i].t = "str" /\ After(env, a, env[a].xs[i].s)
                 THEN Str(ToStr(env[env[a].xs[i].s]))
                 ELSE env[a].xs[i]])

Arith(op, a, b) ==
    IF a.t = "num" /\ b.t = "num"
    THEN CASE op = "+" -> Num(a.n + b.n)
           [] op = "-" -> Num(a.n - b.n)
           [] op = "*" -> Num(a.n * b.n)
           [] op = "<" -> Bool(a.n < b.n)
           [] op = "<=" -> Bool(a.n <= b.n)
           [] op = ">" -> Bool(a.n > b.n)
           [] op = ">=" -> Bool(a.n >= b.n)
           [] op = "==" -> Bool(a.n = b.n)
           [] OTHER -> Bool(a.n # b.n)
    ELSE IF op \in {"+", "-", "*"} THEN NaN
    ELSE IF op = "!=" THEN Bool(TRUE)
    ELSE Bool(FALSE)

(* eval(text) of a call-free tree after variable substitution: an unbound  *)
(* identifier is a ReferenceError, here Fail.                              *)
RECURSIVE JsEval(_, _)
JsEval(e, env) ==
    CASE e.k = "num" -> Num(e.n)
      [] e.k = "str" -> IF Broken(e.ps, env) THEN Fail ELSE Str(Substituted(e.ps, env))
      [] e.k = "var" -> IF ~Bound(env, e.x) THEN Fail
                        ELSE IF env[e.x].t = "list" THEN Reparsed(env, e.x)
                        ELSE env[e.x]
      [] e.k = "res" -> IF e.v.t # "str" THEN e.v
                        ELSE IF Bound(env, e.v.s) THEN env[e.v.s] ELSE Fail
      [] e.k = "bin" ->
            LET a == JsEval(e.l, env)
                b == JsEval(e.r, env)
            IN IF a.t = "fail" \/ b.t = "fail" THEN Fail ELSE Arith(e.op, a, b)
      [] OTHER -> Fail

RECURSIVE HasPlus(_)
HasPlus(e) ==
    e.k = "bin" /\ (e.op = "+" \/ HasPlus(e.l) \/ HasPlus(e.r))

RECURSIVE HasQuote(_, _)
HasQuote(e, env) ==
    CASE e.k = "str" -> TRUE
      [] e.k = "var" -> Bound(env, e.x) /\ HasStr(env[e.x])
      [] e.k = "res" -> e.v.t = "str" /\ Bound(env, e.v.s) /\ env[e.v.s].t = "str"
      [] e.k = "bin" -> HasQuote(e.l, env) \/ HasQuote(e.r, env)
      [] OTHER -> FALSE

RECURSIVE PlusParts(_)
PlusParts(e) ==
    IF e.k = "bin" /\ e.op = "+" THEN PlusParts(e.l) \o PlusParts(e.r) ELSE <<e>>

PartText(e, env) ==
    IF e.k = "str" THEN Substituted(e.ps, env)
    ELSE LET v == JsEval(e, env)
         IN IF v.t = "fail" THEN Render(e, env) ELSE ToStr(v)

(* Steps 5-7 of evaluateExpression on a call-free tree. *)
EvalPure(e, env) ==
    IF HasPlus(e) /\ HasQuote(e, env)
    THEN LET parts == PlusParts(e)
         IN Str(JoinStr([i \in 1..Len(parts) |-> PartText(parts[i], env)], ""))
    ELSE LET v == JsEval(e, env)
         IN IF v.t = "fail" THEN Str(Render(e, env)) ELSE v

(* evaluateExpression of a text that holds no call: a quoted literal, a     *)
(* list literal (split(',') of the empty text is one empty item, whose     *)
(* value is undefined), or steps 5-7                                       *)
RECURSIVE ItemValue(_, _)
ItemValue(e, env) ==
    CASE e.k = "str" -> Str(Quoted(e.ps))
      [] e.k = "list" ->
            IF Len(e.items) = 0 THEN List(<<Undef>>)
            ELSE List([i \in 1..Len(e.items) |-> ItemValue(e.items[i], env)])
      [] OTHER -> EvalPure(e, env)

(* the built-in functions, matched on funcName.toUpperCase() *)
BuiltInFunctions == {"LENGTH", "LEN", "SIZE"}

ToUpperCase(f) ==
    CASE f = "length" -> "LENGTH"
      [] f = "Len" -> "LEN"
      [] f = "size" -> "SIZE"
      [] OTHER -> f

IsBuiltIn(f) == ToUpperCase(f) \in BuiltInFunctions

(* the callback on a built-in: the whole argument text is one expression *)
BuiltIn(call, env) ==
    IF Len(call.args) > 0 /\ ItemValue(call.args[1], env).t = "list"
    THEN Num(Len(ItemValue(call.args[1], env).xs))
    ELSE Num(0)

(* evaluateCondition: a call is not substituted, so eval fails on it. *)
EvaluateCondition(c, env) ==
    LET v == JsEval(c, env)
    IN IF v.t = "fail" THEN FALSE ELSE Truthy(v)

----------------------------------------------------------------------------
(* Program lines *)

Comment == [kind |-> "COMMENT"]
Arrow(x, e) == [kind |-> "ARROW", target |-> x, isArr |-> FALSE, expr |-> e]
ArrowAt(a, i, e) ==
    [kind |-> "ARROW", target |-> a, isArr |-> TRUE, index |-> i, expr |-> e]
Set(x, e) == [kind |-> "SET", ok |-> TRUE, target |-> x, isArr |-> FALSE, expr |-> e]
SetAt(a, i, e) ==
    [kind |-> "SET", ok |-> TRUE, target |-> a, isArr |-> TRUE, index |-> i, expr |-> e]
SetBad == [kind |-> "SET", ok |-> FALSE]
Output(e) == [kind |-> "OUTPUT", expr |-> e]
Input(x) == [kind |-> "INPUT", ok |-> TRUE, var |-> x, hasPrompt |-> FALSE]
InputWith(x, p) ==
    [kind |-> "INPUT", ok |-> TRUE, var |-> x, hasPrompt |-> TRUE, prompt |-> p]
If(c) == [kind |-> "IF", ok |-> TRUE, cond |-> c]
IfBad == [kind |-> "IF", ok |-> FALSE]
Else == [kind |-> "ELSE"]
EndIf == [kind |-> "ENDIF"]
EndIfSp == [kind |-> "END IF"]
While(c) == [kind |-> "WHILE", ok |-> TRUE, cond |-> c]
WhileBad == [kind |-> "WHILE", ok |-> FALSE]
EndWhile == [kind |-> "END WHILE"]
For(x, s, e) == [kind |-> "FOR", ok |-> TRUE, var |-> x, start |-> s, end |-> e]
ForBad == [kind |-> "FOR", ok |-> FALSE]
(* The four ways to write a FOR header, as the two patterns of the FOR      *)
(* branch read them.  matchArrow, FOR (\w+) <- (.+) TO (.+), takes a final   *)
(* DO into the end expression; matchFrom, FOR (\w+) FROM (.+) TO (.+) DO,   *)
(* does not match a header without DO.  to: the end bound as written.       *)
ForForms == {"arrow", "arrow DO", "FROM DO", "FROM"}

ForHeader(form, x, s, e) ==
    [kind |-> "FOR", ok |-> form # "FROM", var |-> x, start |-> s,
     end |-> IF form = "arrow DO" THEN Trail(e, "DO") ELSE e,
     form |-> form, to |-> e]
EndFor == [kind |-> "END FOR"]
NextOf(x) == [kind |-> "NEXT", var |-> x]
Function(f, ps) ==
    [kind |-> "FUNCTION", ok |-> TRUE, name |-> f, parens |-> TRUE, params |-> ps]
Procedure(f, ps) ==
    [kind |-> "PROCEDURE", ok |-> TRUE, name |-> f, parens |-> TRUE, params |-> ps]
(* a header without a parenthesised parameter list: FUNCTION f *)
FunctionBare(f) ==
    [kind |-> "FUNCTION", ok |-> TRUE, name |-> f, parens |-> FALSE, params |-> <<>>]
EndFunction == [kind |-> "ENDFUNCTION"]
EndProcedure == [kind |-> "ENDPROCEDURE"]
Call(f, args) == [kind |-> "CALL", ok |-> TRUE, name |-> f, args |-> args]
Return(e) == [kind |-> "RETURN", hasVal |-> TRUE, expr |-> e]
ReturnNone == [kind |-> "RETURN", hasVal |-> FALSE]
Other == [kind |-> "OTHER"]

LineCount == Len(lines)
LineAt(i) == lines[i + 1]

FunctionEnders == {"ENDFUNCTION", "END FUNCTION", "ENDPROCEDURE", "END PROCEDURE"}

----------------------------------------------------------------------------
(* findMatchingEnd *)

IsOpenerNever(blockType, kind) == FALSE

IsOpener(blockType, kind) == kind = blockType

IsCloser(blockType, kind) ==
    \/ kind = "END " \o blockType
    \/ kind = "END" \o blockType
    \/ blockType = "FOR" /\ kind = "NEXT"

RECURSIVE ScanEnd(_, _, _)
ScanEnd(blockType, i, depth) ==
    IF i >= LineCount THEN LineCount
    ELSE LET kind == LineAt(i).kind
         IN IF IsOpener(blockType, kind) THEN ScanEnd(blockType, i + 1, depth + 1)
            ELSE IF IsCloser(blockType, kind)
                 THEN IF depth - 1 = 0 THEN i ELSE ScanEnd(blockType, i + 1, depth - 1)
            ELSE IF blockType = "IF" /\ kind = "ELSE" /\ depth = 1 THEN i
            ELSE ScanEnd(blockType, i + 1, depth)

FindMatchingEnd(blockType, startLine) == ScanEnd(blockType, startLine + 1, 1)

----------------------------------------------------------------------------
(* parseFunctions *)

IsHeader(i) ==
    /\ LineAt(i).kind \in {"FUNCTION", "PROCEDURE"}
    /\ LineAt(i).ok
    /\ LineAt(i).parens

ParseFunctions ==
    LET names == {LineAt(i).name : i \in {j \in 0..(LineCount - 1) : IsHeader(j)}}
        last(f) == CHOOSE i \in 0..(LineCount - 1) :
                      /\ IsHeader(i) /\ LineAt(i).name = f
                      /\ \A j \in 0..(LineCount - 1) :
                            (IsHeader(j) /\ LineAt(j).name = f) => j <= i
    IN [f \in names |->
          [name |-> f,
           params |-> LineAt(last(f)).params,
           startLine |-> last(f),
           endLine |-> FindMatchingEnd(LineAt(last(f)).kind, last(f))]]

----------------------------------------------------------------------------
(* The engine state threaded through one step() call: the fields of        *)
(* this.state, the heap, the callback logs, and how the call stands        *)
(* (status "threw": an exception is on its way to the host; "hung": the    *)
(* budget of the model for the lines and calls of one step is used up).    *)

Env(st) == st.heap[st.variables]
Stack(st) == st.heap[st.callStack]

SetVar(st, ref, x, v) == [st EXCEPT !.heap[ref] = Put(@, x, v)]
Push(st, frame) ==
    [st EXCEPT !.heap[st.callStack] = Append(@, frame),
               !.pushed = Append(@, Append(Stack(st), frame))]
Pop(st) ==
    IF Len(Stack(st)) = 0 THEN st
    ELSE [st EXCEPT !.heap[st.callStack] = SubSeq(@, 1, Len(@) - 1),
                    !.popped = Append(@, [by |-> st.currentLine,
                                          frame |-> Stack(st)[Len(Stack(st))]])]
Advance(st) == [st EXCEPT !.currentLine = @ + 1]
Throw(st) == [st EXCEPT !.status = "threw"]

TopIs(st, type) ==
    Len(Stack(st)) > 0 /\ Stack(st)[Len(Stack(st))].type = type
Top(st) == Stack(st)[Len(Stack(st))]

(* callStack.find(block => block.line === currentLine && block.type === type) *)
(* a header that never finds its frame *)
HasLoopNever(st, type) == FALSE

HasLoop(st, type) ==
    \E i \in 1..Len(Stack(st)) :
        Stack(st)[i].line = st.currentLine /\ Stack(st)[i].type = type

ExistingLoop(st, type) ==
    Stack(st)[CHOOSE i \in 1..Len(Stack(st)) :
                 /\ Stack(st)[i].line = st.currentLine /\ Stack(st)[i].type = type
                 /\ \A j \in 1..(i - 1) :
                       ~(Stack(st)[j].line = st.currentLine /\ Stack(st)[j].type = type)]

(* array[index] = value on a JavaScript array *)
StoreAt(xs, idx, v) ==
    IF idx.t = "num" /\ idx.n >= 0
    THEN [i \in 1..(IF idx.n + 1 > Len(xs) THEN idx.n + 1 ELSE Len(xs)) |->
             IF i = idx.n + 1 THEN v ELSE IF i <= Len(xs) THEN xs[i] ELSE Undef]
    ELSE xs

(* parseFloat of the response, and the response as a string *)
DigitOf(c) ==
    CASE c = "0" -> 0 [] c = "1" -> 1 [] c = "2" -> 2 [] c = "3" -> 3 [] c = "4" -> 4
      [] c = "5" -> 5 [] c = "6" -> 6 [] c = "7" -> 7 [] c = "8" -> 8 [] c = "9" -> 9
      [] OTHER -> -1

RECURSIVE DigitsPrefix(_, _, _)
DigitsPrefix(cs, i, acc) ==
    IF i > Len(cs) \/ DigitOf(cs[i]) < 0 THEN acc
    ELSE DigitsPrefix(cs, i + 1, acc * 10 + DigitOf(cs[i]))

ParseFloat(cs) ==
    IF Len(cs) > 0 /\ DigitOf(cs[1]) >= 0 THEN Num(DigitsPrefix(cs, 1, 0)) ELSE NaN

NoValue == [t |-> "null"]
Text(cs) == [t |-> "text", cs |-> cs]

FinishCheck(st) ==
    IF st.currentLine >= LineCount THEN [st EXCEPT !.finished = TRUE] ELSE st

----------------------------------------------------------------------------
(* The replace loop of evaluateExpression over the function-call regex    *)
(* (a name, then an argument text free of parentheses): a pass replaces,   *)
(* left to right, every call of a defined function whose argument text     *)
(* holds no parenthesis; the loop runs passes until one replaces nothing.  *)

RECURSIVE Parens(_)
Parens(e) ==
    CASE e.k = "bin" -> Parens(e.l) \/ Parens(e.r)
      [] e.k = "call" -> TRUE
      [] OTHER -> FALSE

RECURSIVE Fresh(_)
Fresh(e) ==
    CASE e.k = "bin" -> Fresh(e.l) \/ Fresh(e.r)
      [] e.k = "call" -> \E i \in 1..Len(e.args) : Fresh(e.args[i])
      [] e.k = "res" -> e.fresh
      [] OTHER -> FALSE

RECURSIVE ClearFresh(_)
ClearFresh(e) ==
    CASE e.k = "bin" -> Bin(e.op, ClearFresh(e.l), ClearFresh(e.r))
      [] e.k = "call" -> CallE(e.f, [i \in 1..Len(e.args) |-> ClearFresh(e.args[i])])
      [] e.k = "res" -> [e EXCEPT !.fresh = FALSE]
      [] OTHER -> e

(* a match of this pass that the callback replaces *)
Ready(e) ==
    /\ e.k = "call"
    /\ IsBuiltIn(e.f) \/ e.f \in DOMAIN functions
    /\ \A i \in 1..Len(e.args) : ~Parens(e.args[i]) /\ ~Fresh(e.args[i])

RECURSIVE HasReady(_)
HasReady(e) ==
    CASE e.k = "bin" -> HasReady(e.l) \/ HasReady(e.r)
      [] e.k = "call" -> Ready(e) \/ \E i \in 1..Len(e.args) : HasReady(e.args[i])
      [] OTHER -> FALSE

FirstReadyArg(e) == CHOOSE i \in 1..Len(e.args) :
                       HasReady(e.args[i]) /\ \A j \in 1..(i - 1) : ~HasReady(e.args[j])

RECURSIVE NextCall(_)
NextCall(e) ==
    CASE e.k = "bin" -> IF HasReady(e.l) THEN NextCall(e.l) ELSE NextCall(e.r)
      [] OTHER -> IF Ready(e) THEN e ELSE NextCall(e.args[FirstReadyArg(e)])

RECURSIVE ReplaceNext(_, _)
ReplaceNext(e, new) ==
    CASE e.k = "bin" -> IF HasReady(e.l) THEN Bin(e.op, ReplaceNext(e.l, new), e.r)
                        ELSE Bin(e.op, e.l, ReplaceNext(e.r, new))
      [] OTHER -> IF Ready(e) THEN new
                  ELSE CallE(e.f, [e.args EXCEPT ![FirstReadyArg(e)] = ReplaceNext(@, new)])

(* args: argsStr.split(',').map(arg => this.evaluateExpression(arg.trim())) *)
(* on argument texts that hold no call                                      *)
ArgValues(args, env) == [i \in 1..Len(args) |-> EvalPure(args[i], env)]

RECURSIVE EvaluateExpression(_, _, _)
RECURSIVE CallFunction(_, _, _, _)
RECURSIVE CallLoop(_, _, _)
RECURSIVE ExecuteLine(_, _, _)

(* the rest of the replace loop once the callback's callFunction is back *)
Resume(c, e, resp) ==
    IF c.st.status # "ok" THEN [st |-> c.st, v |-> Undef]
    ELSE EvaluateExpression(c.st, ReplaceNext(e, Res(c.v)), resp)

EvaluateExpression(st, e, resp) ==
    CASE e.k = "str" -> [st |-> st, v |-> Str(Quoted(e.ps))]
      [] e.k = "list" -> [st |-> st, v |-> ItemValue(e, Env(st))]
      [] e.k \notin {"str", "list"} /\ HasReady(e) /\ IsBuiltIn(NextCall(e).f) ->
            EvaluateExpression(st, ReplaceNext(e, Res(BuiltIn(NextCall(e), Env(st)))), resp)
      [] e.k \notin {"str", "list"} /\ HasReady(e) /\ ~IsBuiltIn(NextCall(e).f) ->
            Resume(CallFunction(st, NextCall(e).f, ArgValues(NextCall(e).args, Env(st)),
                                resp),
                   e, resp)
      [] e.k \notin {"str", "list"} /\ ~HasReady(e) /\ HasReady(ClearFresh(e)) ->
            EvaluateExpression(st, ClearFresh(e), resp)
      [] OTHER -> [st |-> st, v |-> EvalPure(e, Env(st))]

(* where the loop of callFunction stands *)
LoopPhase(st, funcDef) ==
    IF st.status # "ok" \/ st.currentLine > funcDef.endLine THEN "out"
    ELSE IF st.fuel = 0 THEN "hung"
    ELSE IF st.currentLine >= LineCount THEN "throw"
    ELSE IF LineAt(st.currentLine).kind = "RETURN"
         THEN IF LineAt(st.currentLine).hasVal THEN "return" ELSE "out"
    ELSE IF LineAt(st.currentLine).kind \in FunctionEnders THEN "out"
    ELSE "line"

(* the loop of callFunction over the body *)
CallLoop(st, funcDef, resp) ==
    CASE LoopPhase(st, funcDef) = "line" ->
            CallLoop(ExecuteLine([st EXCEPT !.fuel = @ - 1], LineAt(st.currentLine), resp),
                     funcDef, resp)
      [] LoopPhase(st, funcDef) = "return" ->
            EvaluateExpression(st, LineAt(st.currentLine).expr, resp)
      [] LoopPhase(st, funcDef) = "throw" -> [st |-> Throw(st), v |-> Undef]
      [] LoopPhase(st, funcDef) = "hung" ->
            [st |-> [st EXCEPT !.status = "hung"], v |-> Undef]
      [] OTHER -> [st |-> st, v |-> Undef]

(* newVariables[funcDef.params[i]] = args[i], for each i in turn *)
RECURSIVE Params(_, _, _, _)
Params(params, args, i, env) ==
    IF i > Len(params) THEN env
    ELSE Params(params, args, i + 1,
                Put(env, params[i], IF i <= Len(args) THEN args[i] ELSE Undef))

(* callFunction up to the loop: the copies, the fresh environment *)
Entered(st, funcDef, args) ==
    LET n == Len(st.heap)
        newVariables == Params(funcDef.params, args, 1, <<>>)
    IN [st EXCEPT !.heap = @ \o <<Env(st), Stack(st), newVariables, <<>>>>,
                  !.variables = n + 3,
                  !.callStack = n + 4,
                  !.currentLine = funcDef.startLine + 1]

(* callFunction after the loop, with the callee's environment left in place *)
RestoredLineAndStack(st, r) ==
    IF r.st.status # "ok" THEN r
    ELSE [st |-> [r.st EXCEPT !.currentLine = st.currentLine,
                              !.callStack = Len(st.heap) + 2],
          v |-> r.v]

(* callFunction after the loop: savedVariables, savedLine, savedCallStack *)
Restored(st, r) ==
    IF r.st.status # "ok" THEN r
    ELSE [st |-> [r.st EXCEPT !.variables = Len(st.heap) + 1,
                              !.currentLine = st.currentLine,
                              !.callStack = Len(st.heap) + 2],
          v |-> r.v]

CallFunction(st, funcName, args, resp) ==
    IF funcName \notin DOMAIN functions THEN [st |-> st, v |-> Undef]
    ELSE Restored(st, CallLoop(Entered(st, functions[funcName], args),
                               functions[funcName], resp))

(* array[index] = value, with the array made first where the name holds   *)
(* nothing truthy; a write at an index of a value that is no object throws *)
StoreElement(st, target, idx, v) ==
    LET old == IF Bound(Env(st), target) THEN Env(st)[target] ELSE Undef
        arr == IF Truthy(old) THEN old ELSE List(<<>>)
    IN IF arr.t = "list"
       THEN SetVar(st, st.variables, target, List(StoreAt(arr.xs, idx, v)))
       ELSE Throw(st)

AssignElement(line, idx, v) ==
    IF v.st.status # "ok" THEN v.st ELSE StoreElement(v.st, line.target, idx, v.v)

AssignIndexed(line, i, resp) ==
    IF i.st.status # "ok" THEN i.st
    ELSE AssignElement(line, i.v, EvaluateExpression(i.st, line.expr, resp))

(* this.state.variables[target] = ...: the object is read before the       *)
(* right-hand side is evaluated                                            *)
AssignScalar(base, target, r) ==
    IF r.st.status # "ok" THEN r.st ELSE SetVar(r.st, base, target, r.v)

(* the body shared by the arrow and the SET assignment *)
Assign(st, line, resp) ==
    IF line.isArr
    THEN AssignIndexed(line, EvaluateExpression(st, line.index, resp), resp)
    ELSE AssignScalar(st.variables, line.target, EvaluateExpression(st, line.expr, resp))

(* CALL: the arguments, the call, the result dropped *)
CallStatement(st, line, resp) ==
    CallFunction(st, line.name, ArgValues(line.args, Env(st)), resp).st

(* RETURN met by executeLine, that is outside callFunction's own loop *)
CallFrames(st) == {i \in 1..Len(Stack(st)) : Stack(st)[i].type = "FUNCTION_CALL"}

Returned(st, v) ==
    LET k == CHOOSE i \in CallFrames(st) : \A j \in CallFrames(st) : j <= i
        saved == Stack(st)[k].savedVariables
        restored == IF v.t = "undef" THEN saved ELSE Put(saved, "__return__", v)
    IN IF st.status # "ok" THEN st
       ELSE IF CallFrames(st) = {} THEN Advance(st)
       ELSE [st EXCEPT !.heap = Append([@ EXCEPT ![st.callStack] = SubSeq(@, 1, k - 1)],
                                       restored),
                       !.variables = Len(st.heap) + 1,
                       !.currentLine = Stack(st)[k].returnLine]

ReturnValue(r) == Returned(r.st, r.v)

ReturnStatement(st, line, resp) ==
    IF line.hasVal THEN ReturnValue(EvaluateExpression(st, line.expr, resp))
    ELSE Returned(st, Undef)

InputStatement(st, line, resp) ==
    LET promptText == IF line.hasPrompt THEN line.prompt
                      ELSE "Enter value for " \o line.var \o ":"
        asked == [st EXCEPT !.prompts = Append(@, [text |-> promptText, reply |-> resp])]
        numValue == ParseFloat(resp.cs)
    IN IF resp.t = "null" THEN asked
       ELSE SetVar(asked, asked.variables, line.var,
                   IF numValue.t = "nan" THEN Str(JoinStr(resp.cs, "")) ELSE numValue)

(* this.onOutput(String(value)) *)
Emit(r) ==
    IF r.st.status # "ok" THEN r.st ELSE [r.st EXCEPT !.output = Append(@, ToStr(r.v))]

OutputStatement(st, line, resp) == Emit(EvaluateExpression(st, line.expr, resp))

(* IF that, given an ELSE by findMatchingEnd, searches again from the ELSE *)
IfStatementPastEndIf(st, line) ==
    IF EvaluateCondition(line.cond, Env(st))
    THEN Advance(Push(st, [line |-> st.currentLine, type |-> "IF"]))
    ELSE [st EXCEPT !.currentLine =
             IF FindMatchingEnd("IF", st.currentLine) < LineCount
                /\ LineAt(FindMatchingEnd("IF", st.currentLine)).kind = "ELSE"
             THEN FindMatchingEnd("IF", FindMatchingEnd("IF", st.currentLine)) + 1
             ELSE FindMatchingEnd("IF", st.currentLine) + 1]

IfStatement(st, line) ==
    IF EvaluateCondition(line.cond, Env(st))
    THEN Advance(Push(st, [line |-> st.currentLine, type |-> "IF"]))
    ELSE [st EXCEPT !.currentLine = FindMatchingEnd("IF", st.currentLine) + 1]

(* ENDIF that removes the top frame whatever its tag *)
EndIfStatementAnyFrame(st) == Advance(Pop(st))

EndIfStatement(st) == Advance(IF TopIs(st, "IF") THEN Pop(st) ELSE st)

(* WHILE that leaves the frame of a loop whose condition has become false *)
WhileStatementKeepingFrame(st, line) ==
    IF EvaluateCondition(line.cond, Env(st))
    THEN Advance(IF HasLoop(st, "WHILE") THEN st
                 ELSE Push(st, [line |-> st.currentLine, type |-> "WHILE"]))
    ELSE [st EXCEPT !.currentLine = FindMatchingEnd("WHILE", st.currentLine) + 1]

WhileStatement(st, line) ==
    IF EvaluateCondition(line.cond, Env(st))
    THEN Advance(IF HasLoop(st, "WHILE") THEN st
                 ELSE Push(st, [line |-> st.currentLine, type |-> "WHILE"]))
    ELSE [(IF HasLoop(st, "WHILE") THEN Pop(st) ELSE st)
             EXCEPT !.currentLine = FindMatchingEnd("WHILE", st.currentLine) + 1]

(* END WHILE that falls through instead of going back to the header *)
EndWhileFallingThrough(st) == Advance(st)

EndWhileStatement(st) ==
    IF TopIs(st, "WHILE") THEN [st EXCEPT !.currentLine = Top(st).line] ELSE Advance(st)

(* the comparison of the FOR header with the end bound left out *)
LessOnly(a, b) == a.t = "num" /\ b.t = "num" /\ a.n < b.n

(* currentVal <= loopEnd: on two numbers; any other pair the model's       *)
(* programs bind compares false                                            *)
LessEq(a, b) == a.t = "num" /\ b.t = "num" /\ a.n <= b.n

(* a first visit that compares the start value with the end bound *)
ForEnterChecked(at, line, startVal, e) ==
    IF e.st.status # "ok" THEN e.st
    ELSE IF LessEq(startVal, e.v)
         THEN Advance(Push(SetVar(e.st, e.st.variables, line.var, startVal),
                           [line |-> at, type |-> "FOR", loopVar |-> line.var,
                            loopEnd |-> e.v]))
    ELSE [SetVar(e.st, e.st.variables, line.var, startVal)
             EXCEPT !.currentLine = FindMatchingEnd("FOR", at) + 1]

(* the first visit of a FOR header: the loop variable bound, the frame *)
ForEnter(at, line, startVal, e) ==
    IF e.st.status # "ok" THEN e.st
    ELSE Advance(Push(SetVar(e.st, e.st.variables, line.var, startVal),
                      [line |-> at, type |-> "FOR", loopVar |-> line.var,
                       loopEnd |-> e.v]))

ForEnd(at, line, s, resp) ==
    IF s.st.status # "ok" THEN s.st
    ELSE ForEnter(at, line, s.v, EvaluateExpression(s.st, line.end, resp))

ForStatement(st, line, resp) ==
    IF ~HasLoop(st, "FOR")
    THEN ForEnd(st.currentLine, line, EvaluateExpression(st, line.start, resp), resp)
    ELSE LET loop == ExistingLoop(st, "FOR")
             currentVal == IF Bound(Env(st), loop.loopVar) THEN Env(st)[loop.loopVar]
                           ELSE Undef
         IN IF LessEq(currentVal, loop.loopEnd) THEN Advance(st)
            ELSE [Pop(st) EXCEPT !.currentLine = FindMatchingEnd("FOR", st.currentLine) + 1]

NextStatement(st) ==
    IF TopIs(st, "FOR")
    THEN LET x == Top(st).loopVar
             old == IF Bound(Env(st), x) THEN Env(st)[x] ELSE Undef
         IN [SetVar(st, st.variables, x, IF old.t = "num" THEN Num(old.n + 1) ELSE NaN)
                EXCEPT !.currentLine = Top(st).line]
    ELSE Advance(st)

FunctionHeader(st, line) ==
    IF line.ok /\ line.name \in DOMAIN functions
    THEN [st EXCEPT !.currentLine = functions[line.name].endLine + 1]
    ELSE Advance(st)

(* findMatchingEnd('IF', top?.line || currentLine) + 1 *)
ElseStatement(st) ==
    LET from == IF Len(Stack(st)) > 0 /\ Top(st).line # 0 THEN Top(st).line
                ELSE st.currentLine
    IN [st EXCEPT !.currentLine = FindMatchingEnd("IF", from) + 1]

(* a branch that ends in currentLine++ and falls to the finished check;    *)
(* an exception leaves both out                                            *)
Then(st) == IF st.status # "ok" THEN st ELSE FinishCheck(Advance(st))
Checked(st) == IF st.status # "ok" THEN st ELSE FinishCheck(st)
Marked(st) == [st EXCEPT !.executed = Append(@, st.currentLine)]
(* the arrow assignment: currentLine++ and return *)
Arrowed(st) == IF st.status # "ok" THEN st ELSE Advance(st)

ExecuteLine(st, line, resp) ==
    CASE line.kind = "COMMENT" -> Advance(Marked(st))
      [] line.kind = "ARROW" ->
            Arrowed(Assign(Marked(st), line, resp))
      [] line.kind = "SET" ->
            Then(IF line.ok THEN Assign(Marked(st), line, resp) ELSE Marked(st))
      [] line.kind = "OUTPUT" -> Then(OutputStatement(Marked(st), line, resp))
      [] line.kind = "INPUT" ->
            Then(IF line.ok THEN InputStatement(Marked(st), line, resp) ELSE Marked(st))
      [] line.kind = "IF" ->
            Checked(IF line.ok THEN IfStatement(Marked(st), line) ELSE Marked(st))
      [] line.kind = "END IF" -> Checked(EndIfStatement(Marked(st)))
      [] line.kind = "WHILE" ->
            Checked(IF line.ok THEN WhileStatement(Marked(st), line) ELSE Marked(st))
      [] line.kind = "END WHILE" -> Checked(EndWhileStatement(Marked(st)))
      [] line.kind = "FOR" ->
            Checked(IF line.ok THEN ForStatement(Marked(st), line, resp) ELSE Marked(st))
      [] line.kind \in {"END FOR", "NEXT"} -> Checked(NextStatement(Marked(st)))
      [] line.kind \in {"FUNCTION", "PROCEDURE"} ->
            Checked(FunctionHeader(Marked(st), line))
      [] line.kind \in FunctionEnders -> Checked(Advance(Marked(st)))
      [] line.kind = "CALL" ->
            Then(IF line.ok THEN CallStatement(Marked(st), line, resp) ELSE Marked(st))
      [] line.kind = "RETURN" -> Checked(ReturnStatement(Marked(st), line, resp))
      [] line.kind = "ELSE" -> Checked(ElseStatement(Marked(st)))
      [] line.kind = "ENDIF" -> Checked(EndIfStatement(Marked(st)))
      [] OTHER -> Checked(Advance(Marked(st)))

(* step() without the early return of a finished engine *)
StepResultUnguarded(st, resp) ==
    IF st.currentLine >= LineCount
    THEN [st EXCEPT !.finished = TRUE]
    ELSE ExecuteLine(st, LineAt(st.currentLine), resp)

(* step(): the early return of a finished engine, or one executeLine *)
StepResult(st, resp) ==
    IF st.finished \/ st.currentLine >= LineCount
    THEN [st EXCEPT !.finished = TRUE]
    ELSE ExecuteLine(st, LineAt(st.currentLine), resp)

----------------------------------------------------------------------------
(* The programs the engine is constructed on *)

X == V("x")
True == Bin("==", N(1), N(1))
False == Bin("==", N(1), N(2))
XIsOne == Bin("==", X, N(1))

Alphabet ==
    {Output(X), Arrow("x", N(1)), Comment, If(True), If(XIsOne), IfBad, Else, EndIf}

RECURSIVE SeqsOf(_, _)
SeqsOf(A, n) ==
    IF n = 0 THEN {<<>>}
    ELSE LET shorter == SeqsOf(A, n - 1)
         IN shorter \cup {Append(p, a) : p \in {q \in shorter : Len(q) = n - 1}, a \in A}

StructPrograms == SeqsOf(Alphabet, MaxLines) \ {<<>>}

IfElsePrograms ==
    {pre \o <<If(c)>> \o thenBody \o <<Else>> \o elseBody \o <<closer>> \o post :
        pre \in {<<>>, <<Comment>>, <<Arrow("x", N(1))>>},
        c \in {True, False, XIsOne},
        thenBody \in {<<>>, <<Output(S("then"))>>},
        elseBody \in {<<Output(S("else"))>>, <<Set("y", N(2))>>},
        closer \in {EndIf, EndIfSp},
        post \in {<<>>, <<Output(X)>>}}

FactDef ==
    <<Function("fact", <<"n">>),
      If(Bin("<=", V("n"), N(1))),
      Return(N(1)),
      Else,
      Return(Bin("*", V("n"), CallE("fact", <<Bin("-", V("n"), N(1))>>))),
      EndIf,
      EndFunction>>

FactArgs == {N(1), N(2), N(5)}

FactCalls ==
    UNION {{<<Output(CallE("fact", <<a>>))>>,
            <<Output(Bin("+", Q(<<"fact", ": ">>), CallE("fact", <<a>>)))>>,
            <<Set("r", CallE("fact", <<a>>)), Output(V("r"))>>,
            <<Arrow("r", CallE("fact", <<a>>)), Output(V("r"))>>,
            <<SetAt("a", N(0), CallE("fact", <<a>>)), Output(V("a"))>>,
            <<Call("fact", <<a>>)>>} : a \in FactArgs}

FactPrograms ==
    {FactDef \o pre \o call : pre \in {<<Set("n", N(7))>>, <<Set("x", N(5))>>},
                              call \in FactCalls}
    \cup {pre \o call \o FactDef : pre \in {<<Set("x", N(5)), Set("n", N(7))>>},
                                   call \in FactCalls}

MalformedPrograms ==
    {<<Call("f", <<>>), Function("f", <<>>), Output(Q(<<"in", " ", "f">>))>>,
     <<Output(CallE("f", <<>>)), Function("f", <<>>), Return(N(3))>>,
     <<Call("f", <<>>), Output(S("after")), Function("f", <<>>), If(False)>>,
     <<Set("r", CallE("f", <<>>)), Output(S("after")), Procedure("f", <<>>), If(False)>>,
     <<Arrow("x", N(5)), ArrowAt("x", N(0), N(1)), Output(X)>>,
     <<Set("x", N(5)), SetAt("x", N(0), N(1)), Output(X)>>,
     <<ArrowAt("a", N(0), N(1)), ArrowAt("a", N(2), N(3)), Output(V("a"))>>,
     <<WhileBad, Output(X)>>,
     <<ForBad, Output(X)>>,
     <<If(False), Output(X)>>,
     <<Function("f", <<>>), Output(X)>>}

InputPrograms ==
    {<<Input("x"), Output(X)>>,
     <<Set("x", N(3)), InputWith("x", "x?"), If(XIsOne), Output(S("one")), EndIf>>}

(* FOR loops over s..e, closed by NEXT i or END FOR, the header at line 0, *)
(* after another statement, or with the end bound held by a variable       *)
ForLoops ==
    {<<For("i", N(s), e), Output(V("i")), closer, Output(S("end"))>> :
        s \in 1..MaxFrom, e \in {N(t) : t \in 1..MaxTo}, closer \in {NextOf("i"), EndFor}}

ForPrograms ==
    {pre \o loop : pre \in {<<>>, <<Set("n", N(2))>>}, loop \in ForLoops}
    \cup {<<Set("n", N(MaxTo)), For("i", N(1), V("n")), Output(V("i")), NextOf("i"),
            Output(S("end"))>>}

(* SET v TO v + 1 *)
Incr(v) == Set(v, Bin("+", V(v), N(1)))

(* WHILE loops: counting, never entered, nested, and with an IF/ELSE body *)
WhilePrograms ==
    {<<Set("c", N(0)), While(Bin("<", V("c"), N(t))), Output(V("c")), Incr("c"),
       EndWhile, Output(S("end"))>> : t \in 0..MaxTo}
    \cup {<<While(False), Output(X), EndWhile, Output(S("end"))>>,
           <<Set("a", N(0)), While(Bin("<", V("a"), N(2))), Set("b", N(0)),
             While(Bin("<", V("b"), N(2))), Incr("b"), EndWhile, Incr("a"), EndWhile,
             Output(V("a"))>>,
           <<Set("c", N(0)), While(Bin("<", V("c"), N(3))), If(Bin("==", V("c"), N(1))),
             Output(S("one")), Else, Output(V("c")), EndIf, Incr("c"), EndWhile,
             Output(S("end"))>>}

(* defaultCode of the host, with the loop bound a parameter *)
Fibonacci(rounds) ==
    <<Set("x", N(0)),
      Set("y", N(1)),
      Set("counter", N(0)),
      While(Bin("<", V("counter"), N(rounds))),
      Output(Bin("+", Q(<<"Fibonacci", ": ">>), V("y"))),
      Set("temp", Bin("+", V("x"), V("y"))),
      Set("x", V("y")),
      Set("y", V("temp")),
      Incr("counter"),
      EndWhile,
      Output(Q(<<"Done", "!">>))>>

DefaultRounds == 10

FibonacciPrograms == {Fibonacci(DefaultRounds), Fibonacci(MaxTo)}

(* Blocks nested to depth 3: FOR in FOR in FOR, WHILE in WHILE in WHILE, IF  *)
(* in IF in IF, and a WHILE in the ELSE of an IF in a FOR in a WHILE         *)
MaxRounds == 2

Below(v, n) == While(Bin("<", V(v), N(n)))

ForCubes ==
    {<<For("i", N(1), N(e1)), For("j", N(1), N(e2)), For("k", N(1), N(e3)),
       Output(V("k")), c[1], c[2], c[3], Output(S("end"))>> :
        e1 \in 1..MaxRounds, e2 \in 1..MaxRounds, e3 \in 1..MaxRounds,
        c \in {<<NextOf("k"), NextOf("j"), NextOf("i")>>, <<EndFor, NextOf("j"), EndFor>>}}

WhileCubes ==
    {<<Set("a", N(0)), Below("a", ta), Set("b", N(0)), Below("b", tb), Set("c", N(0)),
       Below("c", tc), Incr("c"), EndWhile, Incr("b"), EndWhile, Incr("a"), EndWhile,
       Output(S("end"))>> :
        ta \in 0..MaxRounds, tb \in 0..MaxRounds, tc \in 0..MaxRounds}

IfCubes ==
    {<<If(c1), If(c2), If(c3), Output(S("a")), Else, Output(S("b")), closer, Else,
       Output(S("c")), EndIf, Else, Output(S("d")), closer, Output(S("end"))>> :
        c1 \in {True, False}, c2 \in {True, False}, c3 \in {True, False},
        closer \in {EndIf, EndIfSp}}

MixedNests ==
    {<<Set("a", N(0)), Below("a", ta), For("i", N(1), N(e)), If(Bin("==", V("i"), N(c))),
       Output(V("i")), Else, While(False), Output(S("never")), EndWhile, EndIf,
       NextOf("i"), Incr("a"), EndWhile, Output(S("end"))>> :
        ta \in 0..MaxRounds, e \in 1..MaxRounds, c \in 0..MaxRounds}

NestPrograms == ForCubes \cup WhileCubes \cup IfCubes \cup MixedNests

(* a loop over s..e, s <= e, under each form of header *)
ForFormPrograms ==
    {<<ForHeader(form, "i", N(s), N(e)), Output(V("i")), NextOf("i"), Output(S("end"))>> :
        form \in ForForms, s \in 1..MaxFrom, e \in MaxFrom..MaxTo}

LoopPrograms ==
    ForPrograms \cup WhilePrograms \cup FibonacciPrograms \cup NestPrograms
        \cup ForFormPrograms

(* a block statement with no block open around it, between two statements *)
Strays ==
    {Else, EndIf, EndIfSp, EndWhile, EndFor, NextOf("i"), EndFunction, EndProcedure,
     Return(X), ReturnNone}

StrayPrograms == {<<Set("x", N(1)), stray, Output(X)>> : stray \in Strays}

(* bodies of a procedure p: statements, a loop, an IF/ELSE, and an IF/ELSE  *)
(* inside an IF/ELSE inside a loop                                           *)
Bodies ==
    {<<Set("x", N(4)), Output(X)>>,
     <<Set("c", N(0)), While(Bin("<", V("c"), N(2))), Incr("c"), EndWhile>>,
     <<If(False), Output(S("then")), Else, Set("x", N(4)), EndIf>>,
     <<While(True), If(True), If(False), Else, EndIf, Else, EndIf, EndWhile>>}

(* CALL p() with the definition before or after it *)
CallPrograms ==
    {<<Procedure("p", <<>>)>> \o body \o <<EndProcedure, Set("x", N(1)), Call("p", <<>>)>>
        \o post : body \in Bodies, post \in {<<>>, <<Output(X)>>}}
    \cup {<<Set("x", N(1)), Call("p", <<>>), Output(X), Procedure("p", <<>>)>> \o body
              \o <<EndProcedure>> : body \in Bodies}

(* OUTPUT of a literal + y, y a number, alone or after binding x; the       *)
(* literal holds no variable's name, the name of y, or the name of x        *)
Labels == {Q(<<"Fibonacci", ": ">>), Q(<<"y", " ", "is", " ">>), Q(<<"x", " = ">>)}

LabelPrograms ==
    {pre \o <<Set("y", N(n)), Output(Bin("+", label, V("y")))>> :
        pre \in {<<>>, <<Set("x", N(1))>>, <<Set("x", S("hi"))>>},
        n \in {0, 5}, label \in Labels}

(* OUTPUT of a built-in on a: a unbound, a number, a string, a list of       *)
(* numbers, of one undefined, with a gap, of strings, and of strings one of  *)
(* which is the name of a variable bound before or after a                   *)
Lists ==
    {<<>>,
     <<Set("a", N(5))>>,
     <<Set("a", S("hi"))>>,
     <<Set("a", L(<<N(1), N(2), N(3)>>))>>,
     <<Set("a", L(<<>>))>>,
     <<SetAt("a", N(2), N(7))>>,
     <<Set("a", L(<<S("x"), S("y")>>))>>,
     <<Set("a", L(<<S("x"), S("y")>>)), Set("y", N(1))>>,
     <<Set("x", S("hi")), Set("a", L(<<S("x"), S("y")>>))>>,
     <<Set("a", L(<<S("x"), S("y")>>)), Set("x", S("hi"))>>}

BuiltInNames == {"LENGTH", "LEN", "SIZE", "length", "Len", "size"}

LengthPrograms ==
    {pre \o <<Output(CallE(f, <<V("a")>>))>> : pre \in Lists, f \in BuiltInNames}

(* every program of up to MaxMix lines over loop and IF statements, closed  *)
(* or not, in any order                                                     *)
MaxMix == 4

MixAlphabet ==
    {For("i", N(1), N(2)), NextOf("i"), While(Bin("<", V("i"), N(2))), EndWhile,
     If(True), Else, EndIf, Incr("i")}

MixPrograms == SeqsOf(MixAlphabet, MaxMix) \ {<<>>}

(* an IF/ELSE block at line 0 followed by an IF block *)
TwoIfPrograms ==
    {<<If(c), Else, closer, If(True), Output(S("in")), EndIf>> :
        c \in {True, False}, closer \in {EndIf, EndIfSp}}

(* definitions that no line calls: with and without parameters, without a  *)
(* parameter list, and two of the same name around a statement              *)
Definition(header, closer) == <<header, Output(S("body")), closer>>

DefPrograms ==
    {pre \o Definition(header, EndFunction) \o <<Output(S("top"))>> :
        pre \in {<<>>, <<Set("x", N(1))>>},
        header \in {Function("f", <<>>), Function("f", <<"a", "b">>), FunctionBare("f")}}
    \cup {Definition(Procedure("p", <<"a">>), EndProcedure) \o <<Output(S("top"))>>,
           Definition(Function("f", <<>>), EndFunction) \o <<Output(S("mid"))>>
               \o Definition(Function("f", <<"a">>), EndFunction) \o <<Output(S("top"))>>}

Programs ==
    StructPrograms \cup IfElsePrograms \cup FactPrograms \cup MalformedPrograms
        \cup InputPrograms \cup StrayPrograms \cup CallPrograms
        \cup LabelPrograms \cup LengthPrograms
        \cup DefPrograms

Responses ==
    {NoValue, Text(<<"1">>), Text(<<"4", "2">>), Text(<<"a", "b">>), Text(<<"4", "a">>)}

RespChoices ==
    IF \E i \in 1..Len(lines) : lines[i].kind = "INPUT" THEN Responses ELSE {NoValue}

----------------------------------------------------------------------------
(* The host: construction, step() calls, writes into a returned snapshot *)

(* a line of the source text: its leading blanks and its trimmed text *)
Raw(indent, text) == [indent |-> indent, text |-> text]
Empty == [kind |-> "EMPTY"]
Flush(program) == [i \in 1..Len(program) |-> Raw(0, program[i])]

(* code.split('\n').map(line => line.trim()).filter(line => line.length > 0) *)
Trimmed(source) == [i \in 1..Len(source) |-> source[i].text]
Constructed(source) == SelectSeq(Trimmed(source), LAMBDA line : line # Empty)

InitOnSource(sources) ==
    /\ code \in sources
    /\ lines = Constructed(code)
    /\ functions = ParseFunctions
    /\ heap = << <<>>, <<>> >>
    /\ variables = 1
    /\ callStack = 2
    /\ currentLine = 0
    /\ finished = FALSE
    /\ output = <<>>
    /\ prompts = <<>>
    /\ snaps = <<>>
    /\ threw = FALSE
    /\ nsteps = 0
    /\ executed = <<>>
    /\ popped = <<>>
    /\ pushed = <<>>
    /\ mutated = FALSE
    /\ isRunning = FALSE
    /\ shown = <<>>

(* the engine built on a source text without blank lines or indentation *)
InitOn(programs) == InitOnSource({Flush(program) : program \in programs})

Init == InitOn(Programs)

EngineState ==
    [variables |-> variables, callStack |-> callStack, currentLine |-> currentLine,
     finished |-> finished, heap |-> heap, output |-> output, prompts |-> prompts,
     executed |-> executed, popped |-> popped,
     pushed |-> pushed, status |-> "ok", fuel |-> MaxCallSteps]

(* { ...this.state }: the fields, the two objects shared *)
Snapshot(st) ==
    [variables |-> st.variables, currentLine |-> st.currentLine,
     finished |-> st.finished, callStack |-> st.callStack]

(* what the host holds after a step() call that ended as r *)
Stepped(r) ==
    /\ r.status # "hung"
    /\ variables' = r.variables
    /\ callStack' = r.callStack
    /\ currentLine' = r.currentLine
    /\ finished' = r.finished
    /\ heap' = r.heap
    /\ output' = r.output
    /\ prompts' = r.prompts
    /\ executed' = r.executed
    /\ popped' = r.popped
    /\ pushed' = r.pushed
    /\ threw' = (r.status = "threw")
    /\ snaps' = IF r.status = "threw" THEN snaps ELSE Append(snaps, Snapshot(r))

(* a step() call by a host that makes at most `most` of them *)
StepWithin(most) ==
    /\ nsteps < most
    /\ \E resp \in RespChoices : Stepped(StepResult(EngineState, resp))
    /\ nsteps' = nsteps + 1
    /\ UNCHANGED <<isRunning, shown, code, lines, functions, mutated>>

Step == StepWithin(MaxSteps)

LastSnap == snaps[Len(snaps)]

(* the host's currentLine: -1 before the first step and after a finished   *)
(* result, the result's currentLine otherwise                              *)
Highlight == IF snaps = <<>> \/ LastSnap.finished THEN -1 ELSE LastSnap.currentLine

(* the lines of code.split('\n') the editor marks: idx === currentLine *)
Highlighted == {idx \in 0..(Len(code) - 1) : idx = Highlight}

HostMutateVariables ==
    /\ ~mutated
    /\ Len(snaps) > 0
    /\ heap' = [heap EXCEPT ![LastSnap.variables] = Put(@, "x", Num(9))]
    /\ mutated' = TRUE
    /\ UNCHANGED <<isRunning, shown, code, lines, functions, variables, callStack, currentLine, finished,
                   output, prompts, snaps, threw, nsteps, executed, popped, pushed>>

HostMutateStack ==
    /\ ~mutated
    /\ Len(snaps) > 0
    /\ heap' = [heap EXCEPT ![LastSnap.callStack] =
                                Append(@, [line |-> 0, type |-> "IF"])]
    /\ mutated' = TRUE
    /\ UNCHANGED <<isRunning, shown, code, lines, functions, variables, callStack, currentLine, finished,
                   output, prompts, snaps, threw, nsteps, executed, popped, pushed>>

Next == Step \/ HostMutateVariables \/ HostMutateStack

Spec == Init /\ [][Next]_vars

(* The host stepping any short program of loops and IFs, the programs with *)
(* a call, and the nested blocks                                           *)
MaxMixSteps == 12

MixInit == InitOn(MixPrograms \cup CallPrograms \cup MixedNests \cup TwoIfPrograms)

MixStep == StepWithin(MaxMixSteps)

MixNext == MixStep

MixSpec == MixInit /\ [][MixNext]_vars

(* defaultCode: the Fibonacci program as the editor first shows it, with a  *)
(* blank line before the loop and before the last line, the body indented   *)
DefaultCode(rounds) ==
    LET program == Fibonacci(rounds)
    IN <<Raw(0, program[1]), Raw(0, program[2]), Raw(0, program[3]), Raw(0, Empty),
         Raw(0, program[4]), Raw(2, program[5]), Raw(2, program[6]), Raw(2, program[7]),
         Raw(2, program[8]), Raw(2, program[9]), Raw(0, program[10]), Raw(0, Empty),
         Raw(0, program[11])>>

(* a short program with one empty or blank-only line at any place *)
SpacedSources ==
    {DefaultCode(DefaultRounds), DefaultCode(MaxTo)}
    \cup {LET program == Flush(<<Set("x", N(1)), Output(X), Output(S("end"))>>)
          IN SubSeq(program, 1, at) \o <<Raw(indent, Empty)>> \o SubSeq(program, at + 1, 3) :
             at \in 0..3, indent \in {0, 2}}

(* The host stepping a program with loops to its end *)
LoopInit == InitOnSource({Flush(program) : program \in LoopPrograms} \cup SpacedSources)

LoopStep == StepWithin(MaxLoopSteps)

LoopNext == LoopStep

LoopSpec == LoopInit /\ [][LoopNext]_vars

(* handleRun: the output and the shown variables cleared, a new engine    *)
(* built on the code, the run loop started                                *)
HandleRun ==
    /\ ~isRunning
    /\ heap' = << <<>>, <<>> >>
    /\ variables' = 1
    /\ callStack' = 2
    /\ currentLine' = 0
    /\ finished' = FALSE
    /\ output' = <<>>
    /\ prompts' = <<>>
    /\ snaps' = <<>>
    /\ threw' = FALSE
    /\ nsteps' = 0
    /\ executed' = <<>>
    /\ popped' = <<>>
    /\ pushed' = <<>>
    /\ mutated' = FALSE
    /\ isRunning' = TRUE
    /\ shown' = <<>>
    /\ UNCHANGED <<code, lines, functions>>

(* the timer of the run loop on the result of step(): a finished result    *)
(* stops the loop, any other result is shown; an exception leaves the host *)
(* state as it was                                                         *)
Shown(r) ==
    /\ isRunning' = (r.status = "threw" \/ ~r.finished)
    /\ shown' = IF r.status = "threw" \/ r.finished THEN shown
                ELSE r.heap[r.variables]

Ticked(r) == Stepped(r) /\ Shown(r)

(* the effect: scheduled while isRunning, and again after each render that *)
(* a result brought about; an exception in the timer brings about none     *)
RunTick ==
    /\ isRunning
    /\ ~threw
    /\ nsteps < MaxLoopSteps
    /\ \E resp \in RespChoices : Ticked(StepResult(EngineState, resp))
    /\ nsteps' = nsteps + 1
    /\ UNCHANGED <<code, lines, functions, mutated>>

(* The host running the programs of the editor with the Run button *)
(* programs whose last statement is a SET *)
SetLastPrograms ==
    {pre \o <<Set("c", N(n)), Incr("c")>> :
        pre \in {<<>>, <<Output(S("start"))>>}, n \in 0..MaxTo}

RunSources ==
    {Flush(program) : program \in StructPrograms \cup ForPrograms \cup WhilePrograms
                                  \cup IfElsePrograms \cup SetLastPrograms}
    \cup SpacedSources

RunInit == InitOnSource(RunSources)

RunNext == HandleRun \/ RunTick

RunSpec == RunInit /\ [][RunNext]_vars

----------------------------------------------------------------------------
(* Properties *)

(* a step() call on a running engine that dispatches the line at the counter *)
Dispatches == nsteps' = nsteps + 1 /\ ~finished /\ currentLine < LineCount

(* C1: in a well-nested IF/ELSE/ENDIF block whose IF header is at any line   *)
(* index and whose condition is true, the step that reaches the ELSE line    *)
(* by fall-through moves the counter to one past that IF's own ENDIF, so no  *)
(* statement of the else-body is executed.                                   *)
C1_ElseSkipsElseBody ==
    [][(/\ Dispatches
        /\ lines \in IfElsePrograms
        /\ ~mutated
        /\ LineAt(currentLine).kind = "ELSE"
        /\ TopIs(EngineState, "IF"))
       => /\ currentLine' >= 1
          /\ LineAt(currentLine' - 1).kind \in {"ENDIF", "END IF"}
          /\ output' = output]_vars

(* C2: a step that executes a scalar assignment whose expression calls a     *)
(* user-defined function leaves the target bound, in the engine's current    *)
(* environment, to the value of the expression.                              *)
C2_AssignedAfterCall ==
    [][(/\ Dispatches
        /\ LineAt(currentLine).kind \in {"ARROW", "SET"}
        /\ LineAt(currentLine).kind = "SET" => LineAt(currentLine).ok
        /\ ~LineAt(currentLine).isArr
        /\ HasReady(LineAt(currentLine).expr)
        /\ ~threw')
       => /\ Bound(heap'[variables'], LineAt(currentLine).target)
          /\ heap'[variables'][LineAt(currentLine).target]
                = EvaluateExpression(EngineState, LineAt(currentLine).expr, NoValue).v]_vars

(* C3: once a snapshot with finished=true has been returned, a further       *)
(* step() call returns a snapshot with the same currentLine, variables,      *)
(* finished flag and control-flow stack, calls neither callback and changes  *)
(* no engine state.                                                          *)
C3_FinishedIsIdempotent ==
    [][(/\ nsteps' = nsteps + 1
        /\ Len(snaps) > 0
        /\ LastSnap.finished)
       => /\ snaps' = Append(snaps, LastSnap)
          /\ ~threw'
          /\ UNCHANGED <<variables, callStack, currentLine, finished, heap,
                         output, prompts, executed>>]_vars

(* a step() call made after a finished snapshot, on an engine whose counter  *)
(* is still inside the program                                               *)
C3_Witness ==
    /\ Len(snaps) >= 2
    /\ snaps[Len(snaps) - 1].finished
    /\ currentLine < LineCount

(* C4: no step() call raises an exception to the host, whatever the source   *)
(* text: the host only ever observes a returned snapshot.                    *)
C4_NoException == ~threw

(* a line that fits no statement pattern *)
Unparsable(line) ==
    \/ line.kind = "OTHER"
    \/ line.kind \in {"SET", "INPUT", "IF", "WHILE", "FOR", "CALL"} /\ ~line.ok

(* C5: a step() on a running engine whose current line cannot be parsed as   *)
(* a statement advances the counter by exactly one, also for a line that     *)
(* begins with IF, WHILE or FOR and does not fit the header pattern.         *)
C5_UnparsableAdvances ==
    [][(Dispatches /\ Unparsable(LineAt(currentLine)))
       => currentLine' = currentLine + 1]_vars

(* C6: in every reachable state, also on programs with unclosed blocks, the  *)
(* program counter satisfies 0 <= currentLine <= lineCount.                  *)
C6_CounterInRange == 0 <= currentLine /\ currentLine <= LineCount

(* C7: in every snapshot returned by step(), whatever statement was          *)
(* dispatched, currentLine >= lineCount implies finished=true.               *)
C7_PastEndIsFinished ==
    \A i \in 1..Len(snaps) : snaps[i].currentLine >= LineCount => snaps[i].finished

(* The reference evaluator of C8: the statements in order, with structured  *)
(* IF/ELSE/ENDIF; open holds, for each open IF, whether its current branch   *)
(* is the one that runs.                                                     *)
Running(open) == \A j \in 1..Len(open) : open[j]

RECURSIVE RefRun(_, _, _, _)
RefRun(i, env, out, open) ==
    IF i >= LineCount THEN out
    ELSE LET line == LineAt(i)
             n == Len(open)
         IN CASE line.kind \in {"ARROW", "SET"} /\ Running(open) ->
                    RefRun(i + 1, Put(env, line.target, EvalPure(line.expr, env)), out, open)
              [] line.kind = "OUTPUT" /\ Running(open) ->
                    RefRun(i + 1, env, Append(out, ToStr(EvalPure(line.expr, env))), open)
              [] line.kind = "IF" ->
                    RefRun(i + 1, env, out,
                           Append(open, Running(open) /\ EvaluateCondition(line.cond, env)))
              [] line.kind = "ELSE" ->
                    RefRun(i + 1, env, out,
                           [open EXCEPT ![n] = ~open[n] /\ Running(SubSeq(open, 1, n - 1))])
              [] line.kind \in {"ENDIF", "END IF"} ->
                    RefRun(i + 1, env, out, SubSeq(open, 1, n - 1))
              [] OTHER -> RefRun(i + 1, env, out, open)

RefOutput == RefRun(0, <<>>, <<>>, <<>>)

(* well-nested IF/ELSE/ENDIF; elses holds, for each open IF, whether its    *)
(* ELSE has been met                                                         *)
RECURSIVE Nested(_, _)
Nested(i, elses) ==
    IF i >= LineCount THEN Len(elses) = 0
    ELSE LET kind == LineAt(i).kind
             n == Len(elses)
         IN CASE kind = "IF" -> Nested(i + 1, Append(elses, FALSE))
              [] kind = "ELSE" ->
                    n > 0 /\ ~elses[n] /\ Nested(i + 1, [elses EXCEPT ![n] = TRUE])
              [] kind \in {"ENDIF", "END IF"} ->
                    n > 0 /\ Nested(i + 1, SubSeq(elses, 1, n - 1))
              [] OTHER -> Nested(i + 1, elses)

(* a well-formed program without loops, functions, calls or INPUT, whose    *)
(* assignments are scalar                                                    *)
Straight ==
    /\ \A i \in 0..(LineCount - 1) :
          /\ LineAt(i).kind \in {"COMMENT", "ARROW", "SET", "OUTPUT", "IF", "ELSE",
                                 "ENDIF", "END IF"}
          /\ LineAt(i).kind \in {"SET", "IF"} => LineAt(i).ok
          /\ LineAt(i).kind \in {"ARROW", "SET"} => ~LineAt(i).isArr
          /\ LineAt(i).kind \in {"ARROW", "SET", "OUTPUT"} => ~Parens(LineAt(i).expr)
    /\ Nested(0, <<>>)

(* C8: on a program without loops, function definitions and calls, after N   *)
(* step() calls (N = the number of lines) the snapshot has finished=true     *)
(* and the strings passed to the output callback are the output of the       *)
(* reference evaluator.                                                      *)
C8_MatchesReference ==
    (Straight /\ ~mutated /\ nsteps = LineCount)
        => /\ LastSnap.finished
           /\ output = RefOutput

(* the definition of fact starts at line i *)
FactAt(i) == i + Len(FactDef) <= LineCount /\ SubSeq(lines, i + 1, i + Len(FactDef)) = FactDef

(* C9: the step that calls the recursive fact with n=5 gets 120, and after   *)
(* it the caller's environment holds exactly the bindings it had before:     *)
(* nothing of a fact activation is visible, no caller variable has changed.  *)
C9_FactOfFive ==
    [][(/\ Dispatches
        /\ "fact" \in DOMAIN functions
        /\ FactAt(functions["fact"].startLine)
        /\ LineAt(currentLine) \in {Output(CallE("fact", <<N(5)>>)),
                                    Call("fact", <<N(5)>>)})
       => /\ ~threw'
          /\ heap'[variables'] = heap[variables]
          /\ LineAt(currentLine).kind = "OUTPUT" => output' = Append(output, "120")]_vars

(* fact(5) has been output by a caller that binds n itself *)
C9_Witness ==
    /\ Len(output) > 0
    /\ output[Len(output)] = "120"
    /\ "fact" \in DOMAIN functions
    /\ Bound(heap[variables], "n")
    /\ heap[variables]["n"] = Num(7)

(* C10: a returned snapshot is a point-in-time copy: a later step() changes  *)
(* neither its variables nor its stack, and a host write into a returned     *)
(* snapshot changes neither the engine's variables nor its stack.            *)
C10_SnapshotIsCopy ==
    [][/\ nsteps' = nsteps + 1
          => \A i \in 1..Len(snaps) :
                /\ heap'[snaps[i].variables] = heap[snaps[i].variables]
                /\ heap'[snaps[i].callStack] = heap[snaps[i].callStack]
       /\ mutated' # mutated
          => /\ heap'[variables] = heap[variables]
             /\ heap'[callStack] = heap[callStack]]_vars

(* the FOR header of a program of ForPrograms, its bounds, and the values   *)
(* its body is to print                                                      *)
ForAt == CHOOSE i \in 0..(LineCount - 1) : LineAt(i).kind = "FOR"
ForFrom == LineAt(ForAt).start.n
ForTo == IF LineAt(ForAt).end.k = "num" THEN LineAt(ForAt).end.n ELSE LineAt(0).expr.n
ForValues == [k \in 1..(ForTo - ForFrom + 1) |-> ToString(ForFrom + k - 1)]

IsPrefix(a, b) == Len(a) <= Len(b) /\ SubSeq(b, 1, Len(a)) = a

(* C11: a loop FOR i <- s TO e ... NEXT i with s <= e whose body does not    *)
(* assign i runs its body exactly once for each i = s..e, in order, and for  *)
(* no other value; the step that leaves the loop pops the FOR frame and      *)
(* puts the counter one past the loop's closer.                              *)
C11_ForRunsEachValueOnce ==
    [][(lines \in ForPrograms /\ ForFrom <= ForTo /\ nsteps' = nsteps + 1)
       => /\ IsPrefix(output', ForValues \o <<"end">>)
          /\ finished' => output' = ForValues \o <<"end">>
          /\ (currentLine = ForAt /\ currentLine' # ForAt + 1)
                => /\ currentLine' = ForAt + 3
                   /\ heap'[callStack'] = <<>>
                   /\ output' = ForValues]_vars

(* the loop over 1..3 behind another statement has run to the end *)
C11_Witness ==
    /\ lines \in ForPrograms
    /\ ForAt = 1
    /\ ForFrom = 1
    /\ ForTo = 3
    /\ finished
    /\ output = <<"1", "2", "3", "end">>
    /\ heap[callStack] = <<>>

(* The closer of the block opened at line i of a well-nested program, by    *)
(* the nesting of all block kinds.                                           *)
Opens(kind) == kind \in {"IF", "WHILE", "FOR"}
Closes(kind) == kind \in {"ENDIF", "END IF", "END WHILE", "END FOR", "NEXT"}

RECURSIVE CloserFrom(_, _)
CloserFrom(j, depth) ==
    IF j >= LineCount THEN LineCount
    ELSE IF Opens(LineAt(j).kind) THEN CloserFrom(j + 1, depth + 1)
    ELSE IF Closes(LineAt(j).kind)
         THEN IF depth = 1 THEN j ELSE CloserFrom(j + 1, depth - 1)
    ELSE CloserFrom(j + 1, depth)

BlockEnd(i) == CloserFrom(i + 1, 1)

(* the frames of a stack that are not the WHILE frame of line i *)
WithoutLoop(stack, i) == SelectSeq(stack, LAMBDA b : ~(b.line = i /\ b.type = "WHILE"))

(* C12: every step on a WHILE header evaluates the condition in the current  *)
(* environment: if it is true the counter enters the body with one frame     *)
(* open for the loop, if it is false the loop's frame is removed and the     *)
(* counter becomes one past the matching END WHILE, so the body does not     *)
(* run after a check that was false.                                         *)
C12_WhileChecksEachArrival ==
    [][(/\ Dispatches
        /\ lines \in WhilePrograms
        /\ LineAt(currentLine).kind = "WHILE")
       => IF EvaluateCondition(LineAt(currentLine).cond, heap[variables])
          THEN /\ currentLine' = currentLine + 1
               /\ heap'[callStack']
                     = Append(WithoutLoop(heap[callStack], currentLine),
                              [line |-> currentLine, type |-> "WHILE"])
          ELSE /\ currentLine' = BlockEnd(currentLine) + 1
               /\ heap'[callStack'] = WithoutLoop(heap[callStack], currentLine)
               /\ output' = output]_vars

(* the inner loop of the nested program has been left on a false check, the *)
(* outer loop's frame still open                                             *)
C12_Witness ==
    /\ lines \in WhilePrograms
    /\ LineCount = 9
    /\ currentLine = 6
    /\ Len(heap[callStack]) = 1
    /\ heap[callStack][1].line = 1
    /\ Bound(heap[variables], "b")
    /\ heap[variables]["b"] = Num(2)

(* what the default program is to print *)
FibonacciOutput ==
    <<"Fibonacci: 1", "Fibonacci: 1", "Fibonacci: 2", "Fibonacci: 3", "Fibonacci: 5",
      "Fibonacci: 8", "Fibonacci: 13", "Fibonacci: 21", "Fibonacci: 34", "Fibonacci: 55",
      "Done!">>

(* C13: stepping the default Fibonacci program until finished calls the     *)
(* output callback exactly eleven times, with Fibonacci: 1, 1, 2, ... 55     *)
(* and then Done!, and finishes with counter = 10.                           *)
C13_FibonacciRun ==
    lines = Fibonacci(DefaultRounds)
        => /\ IsPrefix(output, FibonacciOutput)
           /\ finished => /\ output = FibonacciOutput
                          /\ Bound(heap[variables], "counter")
                          /\ heap[variables]["counter"] = Num(10)

(* the default program has been stepped to its end *)
C13_Witness ==
    /\ lines = Fibonacci(DefaultRounds)
    /\ finished
    /\ Len(output) = 11
    /\ currentLine = LineCount

(* the kinds of line that close, divide or leave a block *)
StrayKinds ==
    {"ELSE", "ENDIF", "END IF", "END WHILE", "END FOR", "NEXT", "RETURN"} \cup FunctionEnders

(* C14: a structurally mismatched statement met at top level with no open    *)
(* frame (a stray ELSE, ENDIF/END IF, END WHILE, NEXT/END FOR,               *)
(* ENDFUNCTION/ENDPROCEDURE, or a RETURN outside any call) advances the      *)
(* counter by exactly one and leaves the environment and the stack as they   *)
(* were.                                                                     *)
C14_StrayAdvancesByOne ==
    [][(/\ Dispatches
        /\ ~mutated
        /\ LineAt(currentLine).kind \in StrayKinds
        /\ heap[callStack] = <<>>)
       => /\ currentLine' = currentLine + 1
          /\ heap'[variables'] = heap[variables]
          /\ heap'[callStack'] = <<>>]_vars

(* lines i..last are well-nested blocks of IF/ELSE/ENDIF, WHILE/END WHILE    *)
(* and FOR/NEXT; open holds the kinds of the blocks open, an IF whose ELSE   *)
(* has been met as "ELSE"                                                    *)
RECURSIVE WellNested(_, _, _)
WellNested(i, last, open) ==
    IF i > last THEN Len(open) = 0
    ELSE LET kind == LineAt(i).kind
             n == Len(open)
             rest == SubSeq(open, 1, n - 1)
         IN CASE Opens(kind) -> LineAt(i).ok /\ WellNested(i + 1, last, Append(open, kind))
              [] kind = "ELSE" ->
                    n > 0 /\ open[n] = "IF" /\ WellNested(i + 1, last, Append(rest, "ELSE"))
              [] kind \in {"ENDIF", "END IF"} ->
                    n > 0 /\ open[n] \in {"IF", "ELSE"} /\ WellNested(i + 1, last, rest)
              [] kind = "END WHILE" ->
                    n > 0 /\ open[n] = "WHILE" /\ WellNested(i + 1, last, rest)
              [] kind \in {"END FOR", "NEXT"} ->
                    n > 0 /\ open[n] = "FOR" /\ WellNested(i + 1, last, rest)
              [] kind \in {"FUNCTION", "PROCEDURE"} \cup FunctionEnders -> FALSE
              [] OTHER -> WellNested(i + 1, last, open)

(* the definition f is closed and its body well-nested *)
ClosedBody(f) ==
    /\ functions[f].endLine < LineCount
    /\ WellNested(functions[f].startLine + 1, functions[f].endLine - 1, <<>>)

(* C15: a step on CALL name(args) for a defined function or procedure with   *)
(* a well-nested body runs the body inside the step and returns with the     *)
(* counter one past the CALL line, the stack and the environment as before   *)
(* the step, and finished true only if the CALL was the last line.           *)
C15_CallIsOneStep ==
    [][(/\ Dispatches
        /\ ~mutated
        /\ LineAt(currentLine).kind = "CALL"
        /\ LineAt(currentLine).ok
        /\ LineAt(currentLine).name \in DOMAIN functions
        /\ ClosedBody(LineAt(currentLine).name)
        /\ ~threw')
       => /\ currentLine' = currentLine + 1
          /\ heap'[callStack'] = heap[callStack]
          /\ heap'[variables'] = heap[variables]
          /\ finished' => currentLine = LineCount - 1]_vars

(* the response is a decimal numeral *)
Numeric(cs) == Len(cs) > 0 /\ \A i \in 1..Len(cs) : DigitOf(cs[i]) >= 0

(* C16: a step on INPUT v [WITH "prompt"] calls the input callback once,     *)
(* with the prompt or with "Enter value for v:", and advances the counter by *)
(* one; a numeric response binds v to the number, a non-numeric response     *)
(* binds v to the response string, and no value leaves the environment as it *)
(* was.                                                                      *)
C16_InputBindsResponse ==
    [][(/\ Dispatches
        /\ ~mutated
        /\ LineAt(currentLine).kind = "INPUT"
        /\ LineAt(currentLine).ok)
       => LET line == LineAt(currentLine)
              call == prompts'[Len(prompts')]
              cs == call.reply.cs
          IN /\ Len(prompts') = Len(prompts) + 1
             /\ SubSeq(prompts', 1, Len(prompts)) = prompts
             /\ call.text = IF line.hasPrompt THEN line.prompt
                            ELSE "Enter value for " \o line.var \o ":"
             /\ currentLine' = currentLine + 1
             /\ heap'[variables'] =
                    IF call.reply = NoValue THEN heap[variables]
                    ELSE IF Numeric(cs)
                    THEN Put(heap[variables], line.var, Num(DigitsPrefix(cs, 1, 0)))
                    ELSE Put(heap[variables], line.var, Str(JoinStr(cs, "")))]_vars

(* the line is OUTPUT of a quoted literal + a variable *)
IsLabelled(line) ==
    /\ line.kind = "OUTPUT"
    /\ line.expr.k = "bin" /\ line.expr.op = "+"
    /\ line.expr.l.k = "str" /\ line.expr.r.k = "var"

(* C17: OUTPUT of a quoted literal + a variable bound to a number emits the  *)
(* characters of the literal unchanged, then the decimal form of the number, *)
(* whatever else is bound and whatever words the literal holds.              *)
C17_LiteralUnchanged ==
    [][(/\ Dispatches
        /\ ~mutated
        /\ IsLabelled(LineAt(currentLine))
        /\ Bound(heap[variables], LineAt(currentLine).expr.r.x)
        /\ heap[variables][LineAt(currentLine).expr.r.x].t = "num")
       => output' = Append(output,
                           Quoted(LineAt(currentLine).expr.l.ps)
                               \o ToString(heap[variables][LineAt(currentLine).expr.r.x].n))
      ]_vars

(* For an IF, the ELSE of its own block if it has one, else its closer; for  *)
(* a loop, its closer: by the nesting of all block kinds.                    *)
RECURSIVE ElseFrom(_, _)
ElseFrom(j, depth) ==
    IF j >= LineCount THEN LineCount
    ELSE IF Opens(LineAt(j).kind) THEN ElseFrom(j + 1, depth + 1)
    ELSE IF Closes(LineAt(j).kind)
         THEN IF depth = 1 THEN j ELSE ElseFrom(j + 1, depth - 1)
    ELSE IF LineAt(j).kind = "ELSE" /\ depth = 1 THEN j
    ELSE ElseFrom(j + 1, depth)

OwnEnd(i) == IF LineAt(i).kind = "IF" THEN ElseFrom(i + 1, 1) ELSE BlockEnd(i)

(* the stack holds a frame of the loop at line i *)
LoopOpen(stack, i) == \E n \in 1..Len(stack) : stack[n].line = i

(* C18: in a well-nested program with blocks nested to depth 3,              *)
(* findMatchingEnd(kind, openLine) is the closer of that opener (for an IF,  *)
(* its own ELSE if it has one), and a step that leaves a WHILE or a FOR at   *)
(* its header puts the counter one past the loop's own closer.               *)
C18_MatchesOwnCloser ==
    [][(/\ Dispatches
        /\ lines \in NestPrograms
        /\ Opens(LineAt(currentLine).kind))
       => /\ FindMatchingEnd(LineAt(currentLine).kind, currentLine) = OwnEnd(currentLine)
          /\ OwnEnd(currentLine) < LineCount
          /\ LineAt(currentLine).kind \in {"WHILE", "FOR"}
                => IF LoopOpen(heap'[callStack'], currentLine)
                   THEN currentLine' = currentLine + 1
                   ELSE currentLine' = BlockEnd(currentLine) + 1]_vars

(* the innermost of three FOR loops, open inside the other two, has just     *)
(* been left                                                                 *)
C18_Witness ==
    /\ lines \in ForCubes
    /\ nsteps > 0
    /\ executed[Len(executed)] = 2
    /\ currentLine = 5
    /\ Len(heap[callStack]) = 2

(* the line is OUTPUT of a built-in on a variable *)
IsLength(line) ==
    /\ line.kind = "OUTPUT"
    /\ line.expr.k = "call"
    /\ line.expr.f \in BuiltInNames
    /\ Len(line.expr.args) = 1 /\ line.expr.args[1].k = "var"

(* C19: LENGTH(a), LEN(a) and SIZE(a), in any letter case, are the number of *)
(* elements of the list a is bound to, and 0 when a is unbound or bound to   *)
(* something else; the evaluation raises nothing.                            *)
C19_LengthOfList ==
    [][(/\ Dispatches
        /\ ~mutated
        /\ IsLength(LineAt(currentLine)))
       => LET a == LineAt(currentLine).expr.args[1].x
              env == heap[variables]
          IN /\ ~threw'
             /\ output' = Append(output,
                                 IF Bound(env, a) /\ env[a].t = "list"
                                 THEN ToString(Len(env[a].xs)) ELSE "0")]_vars

(* a step on the header of an IF of a well-nested program, its condition     *)
(* false                                                                     *)
FalseIf ==
    /\ Dispatches
    /\ ~mutated
    /\ WellNested(0, LineCount - 1, <<>>)
    /\ LineAt(currentLine).kind = "IF"
    /\ ~EvaluateCondition(LineAt(currentLine).cond, heap[variables])

(* C20, as stated: on an IF whose condition is false the counter becomes one *)
(* past the ENDIF of the block, also when the block has an ELSE.             *)
C20_FalseIfPastEndIf ==
    [][FalseIf => currentLine' = BlockEnd(currentLine) + 1]_vars

(* C20, amended: on an IF whose condition is false the counter becomes one   *)
(* past the line the block matcher returns, which is the block's own ELSE if *)
(* it has one (the else-body then runs) and its ENDIF otherwise; no frame is *)
(* pushed.                                                                   *)
C20_FalseIfPastElse ==
    [][FalseIf => /\ currentLine' = OwnEnd(currentLine) + 1
                  /\ OwnEnd(currentLine) < LineCount
                  /\ heap'[callStack'] = heap[callStack]]_vars

(* a false IF with an ELSE two lines below has been stepped over *)
C20_Witness ==
    /\ lines \in IfElsePrograms
    /\ ~mutated
    /\ nsteps > 0
    /\ LineAt(executed[Len(executed)]).kind = "IF"
    /\ LineAt(executed[Len(executed)] + 2).kind = "ELSE"
    /\ currentLine = executed[Len(executed)] + 3
    /\ output = <<>>

(* the tag of the frames the statement at line i may remove *)
TagOf(i) ==
    CASE LineAt(i).kind \in {"ENDIF", "END IF"} -> "IF"
      [] LineAt(i).kind = "WHILE" -> "WHILE"
      [] LineAt(i).kind = "FOR" -> "FOR"
      [] OTHER -> "none"

OneFramePerLoop(stack) ==
    \A m \in 1..Len(stack) : \A n \in (m + 1)..Len(stack) :
        stack[m].type \in {"WHILE", "FOR"}
            => ~(stack[m].line = stack[n].line /\ stack[m].type = stack[n].type)

(* C22: the stack of every state, and the stack every push leaves at top     *)
(* level or inside a call, holds at most one WHILE frame and at most one FOR *)
(* frame of any one line: a header met again reuses the frame open at it.    *)
C22_OneFramePerLoop ==
    ~mutated => /\ OneFramePerLoop(heap[callStack])
                /\ \A n \in 1..Len(pushed) : OneFramePerLoop(pushed[n])

(* the header of a WHILE loop has been met a third time, its frame open *)
C22_Witness ==
    /\ ~mutated
    /\ currentLine < LineCount
    /\ LineAt(currentLine).kind = "WHILE"
    /\ Len(SelectSeq(executed, LAMBDA i : i = currentLine)) = 2
    /\ \E n \in 1..Len(heap[callStack]) :
          heap[callStack][n].line = currentLine /\ heap[callStack][n].type = "WHILE"

(* the closer at line i closes a block of kind k *)
ClosesKind(i, k) ==
    \/ k = "IF" /\ LineAt(i).kind \in {"ENDIF", "END IF"}
    \/ k = "WHILE" /\ LineAt(i).kind = "END WHILE"
    \/ k = "FOR" /\ LineAt(i).kind \in {"END FOR", "NEXT"}

(* The greatest number of IF/WHILE/FOR blocks open at once in the source     *)
(* text: an opener opens a block, a closer closes the innermost open block   *)
(* if it is of its kind and is a stray otherwise.                            *)
RECURSIVE DepthFrom(_, _, _)
DepthFrom(i, open, most) ==
    IF i >= LineCount THEN most
    ELSE IF Opens(LineAt(i).kind)
         THEN DepthFrom(i + 1, Append(open, LineAt(i).kind),
                        IF Len(open) + 1 > most THEN Len(open) + 1 ELSE most)
    ELSE IF Len(open) > 0 /\ ClosesKind(i, open[Len(open)])
         THEN DepthFrom(i + 1, SubSeq(open, 1, Len(open) - 1), most)
    ELSE DepthFrom(i + 1, open, most)

NestingDepth == DepthFrom(0, <<>>, 0)

(* C23: the stack is never longer than the nesting depth of the IF/WHILE/FOR *)
(* blocks of the source plus the number of active calls, so it does not grow *)
(* with the iterations of a loop.  A call starts from an empty stack, so the *)
(* bound is checked without the calls, on the stack of every state and on    *)
(* the stack every push leaves, at top level or inside a call, of the        *)
(* well-nested programs without definitions.                                 *)
C23_StackWithinDepth ==
    (~mutated /\ WellNested(0, LineCount - 1, <<>>))
        => /\ Len(heap[callStack]) <= NestingDepth
           /\ \A n \in 1..Len(pushed) : Len(pushed[n]) <= NestingDepth

(* the values lines[1] of a program of ForFormPrograms is written to run over *)
FormValues ==
    [k \in 1..(LineAt(0).to.n - LineAt(0).start.n + 1) |->
        ToString(LineAt(0).start.n + k - 1)]

(* C24: the four forms of FOR header are equivalent: each binds i to s,      *)
(* takes the value of e as the end bound, and runs the body for i = s..e.    *)
C24_ForFormsAgree ==
    [][(lines \in ForFormPrograms /\ nsteps' = nsteps + 1)
       => /\ IsPrefix(output', FormValues \o <<"end">>)
          /\ finished' => output' = FormValues \o <<"end">>
          /\ (currentLine = 0 /\ heap[callStack] = <<>>)
                => /\ currentLine' = 1
                   /\ Bound(heap'[variables'], "i")
                   /\ heap'[variables']["i"] = Num(LineAt(0).start.n)
                   /\ Len(heap'[callStack']) = 1
                   /\ heap'[callStack'][1].loopEnd = Num(LineAt(0).to.n)]_vars

(* the end line of the definition whose header is line i: the next closer *)
RECURSIVE DefEnd(_)
DefEnd(i) ==
    IF i + 1 >= LineCount THEN LineCount
    ELSE IF LineAt(i + 1).kind \in FunctionEnders THEN i + 1
    ELSE DefEnd(i + 1)

(* line i is a statement of the body of a definition *)
InBody(i) ==
    \E h \in 0..(i - 1) : LineAt(h).kind \in {"FUNCTION", "PROCEDURE"} /\ i < DefEnd(h)

(* C25: a FUNCTION or PROCEDURE header met by fall-through is inert: the     *)
(* step puts the counter one past the end line of that definition, and no    *)
(* statement of a body is executed at top level, whatever the form of the    *)
(* header and also when the name is defined twice.                           *)
C25_HeaderIsInert ==
    [][(Dispatches /\ ~mutated /\ lines \in DefPrograms)
       => /\ LineAt(currentLine).kind \in {"FUNCTION", "PROCEDURE"}
                => currentLine' = DefEnd(currentLine) + 1
          /\ ~InBody(currentLine)]_vars

(* the header of the block the closer at line j closes, by the nesting of    *)
(* all block kinds                                                           *)
RECURSIVE OpenerFrom(_, _)
OpenerFrom(i, depth) ==
    IF i < 0 THEN -1
    ELSE IF Closes(LineAt(i).kind) THEN OpenerFrom(i - 1, depth + 1)
    ELSE IF Opens(LineAt(i).kind)
         THEN IF depth = 1 THEN i ELSE OpenerFrom(i - 1, depth - 1)
    ELSE OpenerFrom(i - 1, depth)

OpenerOf(j) == OpenerFrom(j - 1, 1)

(* C26: in a well-nested program every frame an ENDIF/END IF removes is the  *)
(* frame its own IF header pushed; in particular the ENDIF of an inner IF    *)
(* that pushed no frame does not remove the frame of an enclosing IF.        *)
C26_EndIfPopsOwnFrame ==
    (~mutated /\ lines \in IfCubes)
        => \A n \in 1..Len(popped) :
              LineAt(popped[n].by).kind \in {"ENDIF", "END IF"}
                  => popped[n].frame.line = OpenerOf(popped[n].by)

(* no line defines or calls a function, so no expression has one to call *)
CallFree ==
    \A i \in 0..(LineCount - 1) :
        LineAt(i).kind \notin {"CALL", "FUNCTION", "PROCEDURE", "RETURN"}

(* C27: when a well-nested program without function calls has finished, the  *)
(* control-flow stack is empty: every frame an IF, WHILE or FOR header       *)
(* pushed has been popped.                                                   *)
C27_FinishedStackEmpty ==
    (~mutated /\ CallFree /\ WellNested(0, LineCount - 1, <<>>) /\ finished)
        => heap[callStack] = <<>>

(* C28: in every snapshot step() returns, finished = true implies            *)
(* currentLine >= lineCount: the engine never reports finished with the      *)
(* counter restored to a line inside the program after a function call.      *)
C28_FinishedPastLastLine ==
    \A n \in 1..Len(snaps) : snaps[n].finished => snaps[n].currentLine >= LineCount

(* C29: the end bound of a FOR loop is compared only when the header is      *)
(* re-encountered after NEXT/END FOR: a loop FOR i <- s TO e with s > e      *)
(* enters its body on the first visit with i = s, runs it exactly once, and  *)
(* leaves the loop on the second visit of the header.                        *)
C29_ForBodyRunsOnceWhenEmpty ==
    [][(lines \in ForPrograms /\ ForFrom > ForTo /\ nsteps' = nsteps + 1)
       => /\ IsPrefix(output', <<ToString(ForFrom), "end">>)
          /\ finished' => output' = <<ToString(ForFrom), "end">>
          /\ (currentLine = ForAt /\ heap[callStack] = <<>>)
                => /\ currentLine' = ForAt + 1
                   /\ Bound(heap'[variables'], "i")
                   /\ heap'[variables']["i"] = Num(ForFrom)
                   /\ Len(heap'[callStack']) = 1
                   /\ heap'[callStack'][1].loopEnd = Num(ForTo)
          /\ (currentLine = ForAt /\ heap[callStack] # <<>>)
                => /\ currentLine' = ForAt + 3
                   /\ heap'[callStack'] = <<>>
                   /\ output' = <<ToString(ForFrom)>>]_vars

(* the loop from 2 to 1 has run its body once, with i = 2, and has ended *)
C29_Witness ==
    /\ lines \in ForPrograms
    /\ ForFrom = 2
    /\ ForTo = 1
    /\ finished
    /\ output = <<"2", "end">>
    /\ heap[callStack] = <<>>

(* the index in the source text of the line that became lines[i] *)
RECURSIVE SourceFrom(_, _)
SourceFrom(at, i) ==
    IF at >= Len(code) THEN Len(code)
    ELSE IF code[at + 1].text = Empty THEN SourceFrom(at + 1, i)
    ELSE IF i = 0 THEN at
    ELSE SourceFrom(at + 1, i - 1)

SourceLineOf(i) == SourceFrom(0, i)

(* C30: after a step that has not finished, the line the editor highlights   *)
(* (the snapshot's currentLine as an index into the source split on          *)
(* newlines) is the source line of the statement the engine executes on the  *)
(* next step, for every source text, blank lines included.                   *)
C30_HighlightIsNextStatement ==
    (Len(snaps) > 0 /\ ~threw /\ ~finished /\ currentLine < LineCount)
        => Highlighted = {SourceLineOf(currentLine)}

(* C31: when a program started with Run reaches finished, the variables the  *)
(* host holds for display equal the engine's final variable environment,     *)
(* the effect of the last statement included, and the run loop is stopped;   *)
(* a stopped run loop makes no further step() call.                          *)
C31_RunShowsFinalVariables ==
    [][/\ (nsteps' = nsteps + 1 /\ ~threw' /\ finished')
            => /\ shown' = heap'[variables']
               /\ ~isRunning'
       /\ ~isRunning => nsteps' # nsteps + 1]_vars

====
